---- MODULE Spec2Model ----
(***************************************************************************)
(* A model of the systemdrs crate: socket activation (src/socket.rs), the  *)
(* notification encoder and client (src/notify.rs), unit properties        *)
(* (src/properties.rs) and is_systemd (src/lib.rs).                        *)
(*                                                                         *)
(* Text is a sequence of one-character strings, so that splitting,         *)
(* trimming, parsing and formatting are computed character by character.   *)
(***************************************************************************)
EXTENDS Integers, Sequences, FiniteSets, TLC

VARIABLES
    process_id,         \* std::process::id()
    env_listen_pid,     \* the environment: $LISTEN_PID
    env_listen_fds,     \* the environment: $LISTEN_FDS
    env_listen_fdnames, \* the environment: $LISTEN_FDNAMES
    decoded,            \* what the last call of sockets() returned
    decode_warnings,    \* tracing::warn! events of construct_sockets
    held,               \* the SystemDSocket values the caller holds
    fd_table,           \* the process's descriptor table, per descriptor number
    owners,             \* per descriptor: live owning objects (File, TcpListener)
    wraps,              \* per descriptor: how often from_raw_fd took ownership of it
    listener_result,    \* what the last call of SystemDSocket::listener returned
    decodes,            \* calls of sockets() so far
    variables,          \* Message.variables
    rendered,           \* what Message's Display wrote
    env_notify_socket,  \* the environment: $NOTIFY_SOCKET
    ready_call,         \* the last call of ready(): its environment and outcome
    notify_warnings,    \* tracing::warn! events of ready()
    datagrams,          \* datagrams handed to UnixDatagram::send_to
    client,             \* the SystemDNotify the caller keeps
    notify_calls,       \* calls of from_environment(), send() and ready() so far
    input_lines,        \* the lines of the text given to SystemDProperties::from_str
    input_text,         \* the text given to SystemDProperties::from_str
    parsed,             \* what SystemDProperties::from_str returned
    probe,              \* what running `systemctl show` did
    is_systemd_result   \* what is_systemd returned

socket_env_vars == <<process_id, env_listen_pid, env_listen_fds, env_listen_fdnames>>
decode_vars == <<decoded, decode_warnings>>
owner_vars == <<held, fd_table, owners, wraps, listener_result, decodes>>
notify_vars == <<variables, rendered, env_notify_socket, ready_call, notify_warnings,
                 datagrams, client, notify_calls>>
props_vars == <<input_lines, input_text, parsed, probe, is_systemd_result>>
vars == <<socket_env_vars, decode_vars, owner_vars, notify_vars, props_vars>>

----------------------------------------------------------------------------
(* Bounds of the model *)

MaxFds == 3
MaxNameLen == 3
MaxDecodes == 2
MaxMsgLen == 2
MaxCalls == 3
MaxLines == 3
MaxProbeLines == 2

----------------------------------------------------------------------------
(* Text *)

Digits == <<"0", "1", "2", "3", "4", "5", "6", "7", "8", "9">>

IsDigit(c) == \E i \in 1..10 : Digits[i] = c

DigitVal(c) == (CHOOSE i \in 1..10 : Digits[i] = c) - 1

RECURSIVE NatToDecimal(_)
NatToDecimal(n) ==
    IF n < 10 THEN <<Digits[n + 1]>>
    ELSE NatToDecimal(n \div 10) \o <<Digits[(n % 10) + 1]>>

\* Display for an integer: decimal digits, a leading '-' when negative
IntToDecimal(n) == IF n < 0 THEN <<"-">> \o NatToDecimal(0 - n) ELSE NatToDecimal(n)

RECURSIVE Concat(_)
Concat(ss) == IF ss = <<>> THEN <<>> ELSE Head(ss) \o Concat(Tail(ss))

\* the index of the first c in s, 0 when there is none
RECURSIVE FindFrom(_, _, _)
FindFrom(s, c, i) ==
    IF i > Len(s) THEN 0
    ELSE IF s[i] = c THEN i
    ELSE FindFrom(s, c, i + 1)

Find(s, c) == FindFrom(s, c, 1)

\* str::split(c): always one more piece than there are c's in s
RECURSIVE Split(_, _)
Split(s, c) ==
    LET i == Find(s, c)
    IN  IF i = 0 THEN <<s>>
        ELSE <<SubSeq(s, 1, i - 1)>> \o Split(SubSeq(s, i + 1, Len(s)), c)

\* str::split_once(c): the text before and after the first c
SplitOnce(s, c) ==
    LET i == Find(s, c)
    IN  IF i = 0 THEN [found |-> FALSE, key |-> <<>>, value |-> <<>>]
        ELSE [found |-> TRUE, key |-> SubSeq(s, 1, i - 1),
              value |-> SubSeq(s, i + 1, Len(s))]

IsWhitespace(c) == c \in {" ", "\t", "\n", "\r"}

RECURSIVE TrimStart(_)
TrimStart(s) ==
    IF s # <<>> /\ IsWhitespace(Head(s)) THEN TrimStart(Tail(s)) ELSE s

RECURSIVE TrimEnd(_)
TrimEnd(s) ==
    IF s # <<>> /\ IsWhitespace(s[Len(s)]) THEN TrimEnd(SubSeq(s, 1, Len(s) - 1)) ELSE s

\* str::trim
Trim(s) == TrimEnd(TrimStart(s))

\* one line of str::lines: the line ending "\n" or "\r\n" is not part of the line
StripLineEnding(piece) ==
    IF piece # <<>> /\ piece[Len(piece)] = "\n"
    THEN LET l == SubSeq(piece, 1, Len(piece) - 1)
         IN  IF l # <<>> /\ l[Len(l)] = "\r" THEN SubSeq(l, 1, Len(l) - 1) ELSE l
    ELSE piece

\* str::lines: split after every "\n"; a text that ends with "\n" has no last empty line
RECURSIVE Lines(_)
Lines(s) ==
    IF s = <<>> THEN <<>>
    ELSE LET i == Find(s, "\n")
         IN  IF i = 0 THEN <<StripLineEnding(s)>>
             ELSE <<StripLineEnding(SubSeq(s, 1, i))>> \o Lines(SubSeq(s, i + 1, Len(s)))

\* every text over the alphabet of at most n characters
RECURSIVE TextsUpTo(_, _)
TextsUpTo(alphabet, n) ==
    IF n = 0 THEN {<<>>}
    ELSE LET shorter == TextsUpTo(alphabet, n - 1)
         IN  shorter \cup {Append(s, c) : s \in shorter, c \in alphabet}

----------------------------------------------------------------------------
(* Parsing unsigned integers: str::parse::<u32>, str::parse::<usize>.       *)
(* The value is kept as its digits without leading zeros, so that the      *)
(* width of the type is the real one.                                      *)

U32Max == <<"4", "2", "9", "4", "9", "6", "7", "2", "9", "5">>
UsizeMax == <<"1", "8", "4", "4", "6", "7", "4", "4", "0", "7",
              "3", "7", "0", "9", "5", "5", "1", "6", "1", "5">>

RECURSIVE StripZeros(_)
StripZeros(ds) ==
    IF Len(ds) > 1 /\ Head(ds) = "0" THEN StripZeros(Tail(ds)) ELSE ds

\* a < b for digit texts of the same length
RECURSIVE DigitsLess(_, _)
DigitsLess(a, b) ==
    IF a = <<>> THEN FALSE
    ELSE IF Head(a) # Head(b) THEN DigitVal(Head(a)) < DigitVal(Head(b))
    ELSE DigitsLess(Tail(a), Tail(b))

Overflows(ds, max) ==
    \/ Len(ds) > Len(max)
    \/ Len(ds) = Len(max) /\ DigitsLess(max, ds)

ParseFailed == [ok |-> FALSE, digits |-> <<>>]

\* from_str_radix(src, 10) of an unsigned type whose largest value is max
ParseUnsigned(src, max) ==
    IF src = <<>> THEN ParseFailed
    ELSE IF Len(src) = 1 /\ Head(src) \in {"+", "-"} THEN ParseFailed
    ELSE LET ds == IF Head(src) = "+" THEN Tail(src) ELSE src
         IN  IF \E i \in 1..Len(ds) : ~IsDigit(ds[i]) THEN ParseFailed
             ELSE IF Overflows(StripZeros(ds), max) THEN ParseFailed
             ELSE [ok |-> TRUE, digits |-> StripZeros(ds)]

RECURSIVE DigitsToNat(_)
DigitsToNat(ds) ==
    IF ds = <<>> THEN 0
    ELSE 10 * DigitsToNat(SubSeq(ds, 1, Len(ds) - 1)) + DigitVal(ds[Len(ds)])

----------------------------------------------------------------------------
(* The environment: std::env::var *)

NotPresent == [kind |-> "NotPresent", text |-> <<>>]
NotUnicode == [kind |-> "NotUnicode", text |-> <<>>]
Present(t) == [kind |-> "Present", text |-> t]

----------------------------------------------------------------------------
(* src/socket.rs *)

SD_FD_OFFSET == 3

NoError == [kind |-> "none", name |-> "", text |-> <<>>, num |-> 0]
IOError == [kind |-> "IO", name |-> "", text |-> <<>>, num |-> 0]
WrongPID(pid, raw) == [kind |-> "WrongPID", name |-> "", text |-> raw, num |-> pid]
NotSocket(fd) == [kind |-> "NotSocket", name |-> "", text |-> <<>>, num |-> fd]
MissingVar(name) == [kind |-> "MissingVar", name |-> name, text |-> <<>>, num |-> 0]
InvalidVar(name, raw) == [kind |-> "InvalidVar", name |-> name, text |-> raw, num |-> 0]

None == [some |-> FALSE, val |-> <<>>]
Some(v) == [some |-> TRUE, val |-> v]

Ok(v) == [ok |-> TRUE, val |-> v, err |-> NoError]
Err(e) == [ok |-> FALSE, val |-> <<>>, err |-> e]

\* var(name), given what std::env::var(name) returned
var(name, value) ==
    IF value.kind = "Present" THEN Ok(value.text) ELSE Err(MissingVar(name))

\* SystemDSocket::new, SystemDSocket::unnamed
SystemDSocket_new(name, fd) == [name |-> Some(name), fd |-> fd]
SystemDSocket_unnamed(fd) == [name |-> None, fd |-> fd]

\* the numbering starts one descriptor late
Descriptors_off_by_one(n) == [i \in 1..n |-> SD_FD_OFFSET + i]

\* (SD_FD_OFFSET..).take(n)
Descriptors(n) == [i \in 1..n |-> SD_FD_OFFSET + i - 1]

\* the second branch tests the vector of names, not the text
construct_sockets_names_first(listen_fds, listen_fd_names, listen_pid, own_pid) ==
    LET pid == ParseUnsigned(listen_pid, U32Max)
        n_parsed == ParseUnsigned(listen_fds, UsizeMax)
        n == DigitsToNat(n_parsed.digits)
        names == Split(listen_fd_names.val, ":")
        unnamed == [i \in 1..n |-> SystemDSocket_unnamed(Descriptors(n)[i])]
    IN  IF ~pid.ok THEN [res |-> Err(InvalidVar("LISTEN_PID", listen_pid)), warned |-> FALSE]
        ELSE IF NatToDecimal(own_pid) # pid.digits
        THEN [res |-> Err(WrongPID(own_pid, listen_pid)), warned |-> FALSE]
        ELSE IF ~n_parsed.ok
        THEN [res |-> Err(InvalidVar("LISTEN_FDS", listen_fds)), warned |-> FALSE]
        ELSE IF listen_fd_names.some /\ listen_fd_names.val # <<>> /\ Len(names) = n
        THEN [res |-> Ok([i \in 1..n |-> SystemDSocket_new(names[i], Descriptors(n)[i])]),
              warned |-> FALSE]
        ELSE [res |-> Ok(unnamed),
              warned |-> listen_fd_names.some /\ listen_fd_names.val # <<>>]

\* names of the wrong number are attached as far as they go
construct_sockets_partial(listen_fds, listen_fd_names, listen_pid, own_pid) ==
    LET pid == ParseUnsigned(listen_pid, U32Max)
        n_parsed == ParseUnsigned(listen_fds, UsizeMax)
        n == DigitsToNat(n_parsed.digits)
        names == Split(listen_fd_names.val, ":")
    IN  IF ~pid.ok THEN [res |-> Err(InvalidVar("LISTEN_PID", listen_pid)), warned |-> FALSE]
        ELSE IF NatToDecimal(own_pid) # pid.digits
        THEN [res |-> Err(WrongPID(own_pid, listen_pid)), warned |-> FALSE]
        ELSE IF ~n_parsed.ok
        THEN [res |-> Err(InvalidVar("LISTEN_FDS", listen_fds)), warned |-> FALSE]
        ELSE [res |-> Ok([i \in 1..n |->
                            IF listen_fd_names.some /\ i <= Len(names)
                            THEN SystemDSocket_new(names[i], Descriptors(n)[i])
                            ELSE SystemDSocket_unnamed(Descriptors(n)[i])]),
              warned |-> listen_fd_names.some /\ Len(names) # n]

\* construct_sockets(listen_fds, listen_fd_names, listen_pid), with process::id()
construct_sockets(listen_fds, listen_fd_names, listen_pid, own_pid) ==
    LET pid == ParseUnsigned(listen_pid, U32Max)
        n_parsed == ParseUnsigned(listen_fds, UsizeMax)
        n == DigitsToNat(n_parsed.digits)
        names == Split(listen_fd_names.val, ":")
    IN  IF ~pid.ok THEN [res |-> Err(InvalidVar("LISTEN_PID", listen_pid)), warned |-> FALSE]
        ELSE IF NatToDecimal(own_pid) # pid.digits
        THEN [res |-> Err(WrongPID(own_pid, listen_pid)), warned |-> FALSE]
        ELSE IF ~n_parsed.ok
        THEN [res |-> Err(InvalidVar("LISTEN_FDS", listen_fds)), warned |-> FALSE]
        ELSE IF listen_fd_names.some /\ Len(names) = n
        THEN [res |-> Ok([i \in 1..n |-> SystemDSocket_new(names[i], Descriptors(n)[i])]),
              warned |-> FALSE]
        ELSE [res |-> Ok([i \in 1..n |-> SystemDSocket_unnamed(Descriptors(n)[i])]),
              \* `!names.is_empty()` asks the vector, which split never leaves empty
              warned |-> listen_fd_names.some /\ names # <<>>]

\* the process id is parsed and compared before LISTEN_FDS is required
sockets_pid_first(pid_value, fds_value, fdnames_value, own_pid) ==
    LET listen_pid == var("LISTEN_PID", pid_value)
        listen_fds == var("LISTEN_FDS", fds_value)
        listen_fd_names == var("LISTEN_FDNAMES", fdnames_value)
        names == IF listen_fd_names.ok THEN Some(listen_fd_names.val) ELSE None
        pid_only == construct_sockets(<<"0">>, None, listen_pid.val, own_pid)
    IN  IF ~listen_pid.ok THEN [res |-> Err(listen_pid.err), warned |-> FALSE]
        ELSE IF ~pid_only.res.ok THEN pid_only
        ELSE IF ~listen_fds.ok THEN [res |-> Err(listen_fds.err), warned |-> FALSE]
        ELSE construct_sockets(listen_fds.val, names, listen_pid.val, own_pid)

\* sockets(), given what the environment holds
sockets(pid_value, fds_value, fdnames_value, own_pid) ==
    LET listen_pid == var("LISTEN_PID", pid_value)
        listen_fds == var("LISTEN_FDS", fds_value)
        listen_fd_names == var("LISTEN_FDNAMES", fdnames_value)
        names == IF listen_fd_names.ok THEN Some(listen_fd_names.val) ELSE None
    IN  \* the arguments are evaluated in order: `listen_fds?` before `listen_pid?`
        IF ~listen_fds.ok THEN [res |-> Err(listen_fds.err), warned |-> FALSE]
        ELSE IF ~listen_pid.ok THEN [res |-> Err(listen_pid.err), warned |-> FALSE]
        ELSE construct_sockets(listen_fds.val, names, listen_pid.val, own_pid)

----------------------------------------------------------------------------
(* The descriptors handed over, and who owns them *)

FdRange == SD_FD_OFFSET..(SD_FD_OFFSET + MaxFds)

NoCall == [called |-> FALSE, fd |-> 0, ok |-> FALSE, err |-> NoError]
Returned(fd, ok, err) == [called |-> TRUE, fd |-> fd, ok |-> ok, err |-> err]

RemoveAt(s, i) == SubSeq(s, 1, i - 1) \o SubSeq(s, i + 1, Len(s))

\* a call of sockets(): the caller keeps the values it returns
CallSockets ==
    /\ decodes < MaxDecodes
    /\ LET r == sockets(env_listen_pid, env_listen_fds, env_listen_fdnames, process_id)
       IN  /\ decoded' = r.res
           /\ decode_warnings' = decode_warnings + (IF r.warned THEN 1 ELSE 0)
           /\ held' = held \o r.res.val
    /\ decodes' = decodes + 1
    /\ UNCHANGED <<socket_env_vars, fd_table, owners, wraps, listener_result>>
    /\ UNCHANGED <<notify_vars, props_vars>>

\* SystemDSocket::listener(self) on descriptor fd of the given kind: what it
\* returns, what the descriptor is afterwards, and how many owning objects
\* it leaves alive
listener(fd, kind, nonblocking_ok) ==
    IF kind = "closed"
    \* file.metadata()? fails (EBADF); the File is dropped, which closes fd
    THEN [result |-> Returned(fd, FALSE, IOError), kind |-> "closed", owned |-> 0]
    ELSE IF kind # "socket"
    \* file.into_raw_fd() gives the descriptor up without closing it
    THEN [result |-> Returned(fd, FALSE, NotSocket(fd)), kind |-> kind, owned |-> 0]
    ELSE IF ~nonblocking_ok
    \* listener.set_nonblocking(true)? fails; the TcpListener is dropped, which closes fd
    THEN [result |-> Returned(fd, FALSE, IOError), kind |-> "closed", owned |-> 0]
    ELSE [result |-> Returned(fd, TRUE, NoError), kind |-> "socket", owned |-> 1]

\* a call of listener() on one of the values the caller holds; self is consumed
CallListener ==
    \E i \in 1..Len(held), nonblocking_ok \in BOOLEAN :
        LET fd == held[i].fd
            r == listener(fd, fd_table[fd], nonblocking_ok)
        IN  /\ held' = RemoveAt(held, i)
            /\ wraps' = [wraps EXCEPT ![fd] = @ + 1]
            /\ owners' = [owners EXCEPT ![fd] = @ + r.owned]
            /\ fd_table' = [fd_table EXCEPT ![fd] = r.kind]
            /\ listener_result' = r.result
            /\ UNCHANGED <<socket_env_vars, decode_vars, decodes>>
            /\ UNCHANGED <<notify_vars, props_vars>>

\* the caller drops a TcpListener: its descriptor is closed
DropListener ==
    \E fd \in FdRange :
        /\ owners[fd] > 0
        /\ owners' = [owners EXCEPT ![fd] = @ - 1]
        /\ fd_table' = [fd_table EXCEPT ![fd] = "closed"]
        /\ UNCHANGED <<socket_env_vars, decode_vars, held, wraps, listener_result, decodes>>
        /\ UNCHANGED <<notify_vars, props_vars>>

----------------------------------------------------------------------------
(* src/notify.rs: the encoder *)

Notification(kind, text, num, key) == [kind |-> kind, text |-> text, num |-> num, key |-> key]

Ready == Notification("Ready", <<>>, 0, <<>>)
Reloading == Notification("Reloading", <<>>, 0, <<>>)
Stopping == Notification("Stopping", <<>>, 0, <<>>)
Status(status) == Notification("Status", status, 0, <<>>)
Errno(errno) == Notification("Errno", <<>>, errno, <<>>)
WatchdogOk == Notification("WatchdogOk", <<>>, 0, <<>>)
WatchdogTrigger == Notification("WatchdogTrigger", <<>>, 0, <<>>)
Custom(key, value) == Notification("Custom", value, 0, key)

\* Display for CustomVariable
fmt_CustomVariable(variable) == <<"X", "-">> \o variable.key \o <<"=">> \o variable.text

\* Display for Notification
fmt_Notification(n) ==
    CASE n.kind = "Ready" -> <<"R", "E", "A", "D", "Y", "=", "1">>
      [] n.kind = "Reloading" -> <<"R", "E", "L", "O", "A", "D", "I", "N", "G", "=", "1">>
      [] n.kind = "Stopping" -> <<"S", "T", "O", "P", "P", "I", "N", "G", "=", "1">>
      [] n.kind = "Status" -> <<"S", "T", "A", "T", "U", "S", "=">> \o n.text
      [] n.kind = "Errno" -> <<"E", "R", "R", "N", "O", "=">> \o IntToDecimal(n.num)
      [] n.kind = "WatchdogOk" -> <<"W", "A", "T", "C", "H", "D", "O", "G", "=", "1">>
      [] n.kind = "WatchdogTrigger" -> <<"W", "A", "T", "C", "H", "D", "O", "G", "=", "t", "r", "i", "g", "g", "e", "r">>
      [] n.kind = "Custom" -> fmt_CustomVariable(n)

\* write! in place of writeln!: no line break after a variable
RECURSIVE fmt_Message_write(_)
fmt_Message_write(message) ==
    IF message = <<>> THEN <<>>
    ELSE fmt_Notification(Head(message)) \o fmt_Message_write(Tail(message))

\* Display for Message: writeln! of every variable, in order
RECURSIVE fmt_Message(_)
fmt_Message(message) ==
    IF message = <<>> THEN <<>>
    ELSE fmt_Notification(Head(message)) \o <<"\n">> \o fmt_Message(Tail(message))

\* Message::from(Notification)
Message_from(notification) == <<notification>>

NotRendered == [called |-> FALSE, message |-> <<>>, text |-> <<>>]

StatusTexts == {<<>>, <<"u", "p">>, <<"a", "=", "b">>, <<"a", "\n", "b">>}
Errnos == {-12, -1, 0, 2, 110}
CustomPairs == {<<<<"k">>, <<"v">>>>, <<<<"K", "2">>, <<>>>>}

Notifications ==
    {Ready, Reloading, Stopping, WatchdogOk, WatchdogTrigger}
        \cup {Status(s) : s \in StatusTexts}
        \cup {Errno(e) : e \in Errnos}
        \cup {Custom(p[1], p[2]) : p \in CustomPairs}

\* Message::push
Push ==
    \E notification \in Notifications :
        /\ Len(variables) < MaxMsgLen
        /\ variables' = Append(variables, notification)
        /\ UNCHANGED <<rendered, env_notify_socket, client, ready_call, notify_warnings,
                       datagrams, notify_calls>>
        /\ UNCHANGED <<socket_env_vars, decode_vars, owner_vars, props_vars>>

\* message.to_string()
Display ==
    /\ rendered' = [called |-> TRUE, message |-> variables, text |-> fmt_Message(variables)]
    /\ UNCHANGED <<variables, env_notify_socket, client, ready_call, notify_warnings,
                   datagrams, notify_calls>>
    /\ UNCHANGED <<socket_env_vars, decode_vars, owner_vars, props_vars>>

----------------------------------------------------------------------------
(* src/notify.rs: the client *)

\* NotifyError::from(SocketError); the last arm panics
NotifyError_from(value) ==
    IF value.kind \in {"IO", "MissingVar", "InvalidVar"}
    THEN [panic |-> FALSE, err |-> value]
    ELSE [panic |-> TRUE, err |-> value]

NoClient == [some |-> FALSE, address |-> <<>>]

\* SystemDNotify::from_environment, given $NOTIFY_SOCKET and whether
\* UnixDatagram::unbound() succeeds
from_environment(notify_socket, unbound_ok) ==
    LET address == var("NOTIFY_SOCKET", notify_socket)
        converted == NotifyError_from(address.err)
    IN  IF ~address.ok
        THEN [panic |-> converted.panic, ok |-> FALSE, err |-> converted.err,
              client |-> NoClient]
        ELSE IF ~unbound_ok
        THEN [panic |-> FALSE, ok |-> FALSE, err |-> IOError, client |-> NoClient]
        ELSE [panic |-> FALSE, ok |-> TRUE, err |-> NoError,
              client |-> [some |-> TRUE, address |-> address.val]]

\* SystemDNotify::send: the datagram handed to send_to, and what is returned
send(notify, message, send_ok) ==
    LET payload == fmt_Message(message)
    IN  IF send_ok
        THEN [ok |-> TRUE, err |-> NoError,
              datagram |-> <<[to |-> notify.address, payload |-> payload]>>]
        ELSE [ok |-> FALSE, err |-> IOError, datagram |-> <<>>]

\* a failure to build the client is logged too
ready_warns_always(notify_socket, unbound_ok, send_ok) ==
    LET notify == from_environment(notify_socket, unbound_ok)
        sent == send(notify.client, Message_from(Ready), send_ok)
    IN  IF notify.panic
        THEN [outcome |-> "panicked", datagram |-> <<>>, warned |-> FALSE]
        ELSE IF ~notify.ok
        THEN [outcome |-> "returned", datagram |-> <<>>, warned |-> TRUE]
        ELSE [outcome |-> "returned", datagram |-> sent.datagram, warned |-> ~sent.ok]

\* ready()
ready(notify_socket, unbound_ok, send_ok) ==
    LET notify == from_environment(notify_socket, unbound_ok)
        sent == send(notify.client, Message_from(Ready), send_ok)
    IN  IF notify.panic
        THEN [outcome |-> "panicked", datagram |-> <<>>, warned |-> FALSE]
        ELSE IF ~notify.ok
        \* `if let Ok(notify)`: nothing is done with the error
        THEN [outcome |-> "returned", datagram |-> <<>>, warned |-> FALSE]
        ELSE [outcome |-> "returned", datagram |-> sent.datagram, warned |-> ~sent.ok]

NotCalled ==
    [called |-> FALSE, unbound_ok |-> FALSE, send_ok |-> FALSE, outcome |-> "none",
     sent |-> FALSE, warned |-> FALSE]

\* a call of SystemDNotify::from_environment(); the caller keeps the client
NewClient ==
    \E unbound_ok \in BOOLEAN :
        LET r == from_environment(env_notify_socket, unbound_ok)
        IN  /\ notify_calls < MaxCalls
            /\ notify_calls' = notify_calls + 1
            /\ client' = IF r.ok THEN r.client ELSE client
            /\ UNCHANGED <<variables, rendered, env_notify_socket, ready_call,
                           notify_warnings, datagrams>>
            /\ UNCHANGED <<socket_env_vars, decode_vars, owner_vars, props_vars>>

\* a call of send() on the client the caller keeps
ClientSend ==
    \E notification \in {Ready, Stopping, Status(<<"u", "p">>)}, send_ok \in BOOLEAN :
        LET r == send(client, Message_from(notification), send_ok)
        IN  /\ client.some
            /\ notify_calls < MaxCalls
            /\ notify_calls' = notify_calls + 1
            /\ datagrams' = datagrams \o r.datagram
            /\ UNCHANGED <<variables, rendered, env_notify_socket, client, ready_call,
                           notify_warnings>>
            /\ UNCHANGED <<socket_env_vars, decode_vars, owner_vars, props_vars>>

\* a call of ready()
CallReady ==
    \E unbound_ok \in BOOLEAN, send_ok \in BOOLEAN :
        LET r == ready(env_notify_socket, unbound_ok, send_ok)
        IN  /\ notify_calls < MaxCalls
            /\ notify_calls' = notify_calls + 1
            /\ datagrams' = datagrams \o r.datagram
            /\ notify_warnings' = notify_warnings + (IF r.warned THEN 1 ELSE 0)
            /\ ready_call' = [called |-> TRUE, unbound_ok |-> unbound_ok,
                              send_ok |-> send_ok, outcome |-> r.outcome,
                              sent |-> r.datagram # <<>>, warned |-> r.warned]
            /\ UNCHANGED <<variables, rendered, env_notify_socket, client>>
            /\ UNCHANGED <<socket_env_vars, decode_vars, owner_vars, props_vars>>

----------------------------------------------------------------------------
(* src/properties.rs *)

\* FromStr for ActiveState
ActiveState_from_str(s) ==
    CASE s = <<"a", "c", "t", "i", "v", "e">> -> [ok |-> TRUE, state |-> "Active"]
      [] s = <<"r", "e", "l", "o", "a", "d", "i", "n", "g">> -> [ok |-> TRUE, state |-> "Reloading"]
      [] s = <<"i", "n", "a", "c", "t", "i", "v", "e">> -> [ok |-> TRUE, state |-> "Inactive"]
      [] s = <<"f", "a", "i", "l", "e", "d">> -> [ok |-> TRUE, state |-> "Failed"]
      [] s = <<"a", "c", "t", "i", "v", "a", "t", "i", "n", "g">> -> [ok |-> TRUE, state |-> "Activating"]
      [] s = <<"d", "e", "a", "c", "t", "i", "v", "a", "t", "i", "n", "g">> -> [ok |-> TRUE, state |-> "Deactivating"]
      [] OTHER -> [ok |-> FALSE, state |-> "none"]

NoParseError == [kind |-> "none", text |-> <<>>]
StateParseError(s) == [kind |-> "State", text |-> s]
MissingDelimeter(line) == [kind |-> "MissingDelimeter", text |-> line]
MissingProperty(name) == [kind |-> "MissingProperty", text |-> name]
CommandError == [kind |-> "CommandError", text |-> <<>>]

EmptyMap == [k \in {} |-> <<>>]

\* an earlier value of the key is kept
HashMap_insert_keep_first(map, key, value) ==
    [k \in DOMAIN map \cup {key} |-> IF k \in DOMAIN map THEN map[k] ELSE value]

\* HashMap::insert
HashMap_insert(map, key, value) ==
    [k \in DOMAIN map \cup {key} |-> IF k = key THEN value ELSE map[k]]

\* HashMap::get
HashMap_get(map, key) == IF key \in DOMAIN map THEN Some(map[key]) ELSE None

\* the loop of from_str over s.lines(): the map, or the first line without '='
RECURSIVE InsertLines(_, _)
InsertLines(lines, properties) ==
    IF lines = <<>> THEN [ok |-> TRUE, err |-> NoParseError, properties |-> properties]
    ELSE LET line == Head(lines)
             kv == SplitOnce(Trim(line), "=")
         IN  IF ~kv.found
             THEN [ok |-> FALSE, err |-> MissingDelimeter(line), properties |-> EmptyMap]
             ELSE InsertLines(Tail(lines), HashMap_insert(properties, kv.key, kv.value))

ParseFailure(e) ==
    [ok |-> FALSE, err |-> e, properties |-> EmptyMap, active |-> "none"]

\* FromStr for SystemDProperties
SystemDProperties_from_str(s) ==
    LET read == InsertLines(Lines(s), EmptyMap)
        state == HashMap_get(read.properties, <<"A", "c", "t", "i", "v", "e", "S", "t", "a", "t", "e">>)
        active == ActiveState_from_str(state.val)
    IN  IF ~read.ok THEN ParseFailure(read.err)
        ELSE IF ~state.some THEN ParseFailure(MissingProperty(<<"A", "c", "t", "i", "v", "e", "S", "t", "a", "t", "e">>))
        ELSE IF ~active.ok THEN ParseFailure(StateParseError(state.val))
        ELSE [ok |-> TRUE, err |-> NoParseError, properties |-> read.properties,
              active |-> active.state]

\* SystemDProperties::property
property(self, name) == HashMap_get(self.properties, name)

\* SystemDProperties::state
state(self) == self.active

\* properties(unit), given what running `systemctl show` did
properties(ran) ==
    IF ran.kind = "CommandError"
    THEN [panic |-> FALSE, res |-> ParseFailure(CommandError)]
    ELSE IF ran.kind = "NotUtf8"
    \* String::from_utf8(output.stdout).unwrap()
    THEN [panic |-> TRUE, res |-> ParseFailure(NoParseError)]
    ELSE [panic |-> FALSE, res |-> SystemDProperties_from_str(ran.stdout)]

----------------------------------------------------------------------------
(* src/lib.rs *)

\* is_systemd(unit), given what running `systemctl show` did
is_systemd(ran, own_pid) ==
    LET read == properties(ran)
        systemd_pid == property(read.res, <<"M", "a", "i", "n", "P", "I", "D">>)
        process_pid == NatToDecimal(own_pid)
    IN  IF read.panic THEN "panic"
        ELSE IF read.res.ok
        THEN (IF systemd_pid = Some(process_pid) THEN "true" ELSE "false")
        ELSE "false"

----------------------------------------------------------------------------
(* Unit property texts *)

PropertyLines ==
    { <<"A", "c", "t", "i", "v", "e", "S", "t", "a", "t", "e", "=", "a", "c", "t", "i", "v", "e">>, <<"A", "c", "t", "i", "v", "e", "S", "t", "a", "t", "e", "=", "r", "e", "l", "o", "a", "d", "i", "n", "g">>, <<"A", "c", "t", "i", "v", "e", "S", "t", "a", "t", "e", "=", "i", "n", "a", "c", "t", "i", "v", "e">>,
      <<"A", "c", "t", "i", "v", "e", "S", "t", "a", "t", "e", "=", "f", "a", "i", "l", "e", "d">>, <<"A", "c", "t", "i", "v", "e", "S", "t", "a", "t", "e", "=", "a", "c", "t", "i", "v", "a", "t", "i", "n", "g">>, <<"A", "c", "t", "i", "v", "e", "S", "t", "a", "t", "e", "=", "d", "e", "a", "c", "t", "i", "v", "a", "t", "i", "n", "g">>,
      <<"A", "c", "t", "i", "v", "e", "S", "t", "a", "t", "e", "=", "A", "c", "t", "i", "v", "e">>, <<" ", "A", "c", "t", "i", "v", "e", "S", "t", "a", "t", "e", "=", "f", "a", "i", "l", "e", "d", " ">>, <<"M", "a", "i", "n", "P", "I", "D", "=", "7">>,
      <<"M", "a", "i", "n", "P", "I", "D", "=", "4", "2", "\r">>,
      <<"I", "d", "=", "a", "=", "b">>, <<"g", "a", "r", "b", "a", "g", "e">>, <<>> }

ProbeLines ==
    { <<"A", "c", "t", "i", "v", "e", "S", "t", "a", "t", "e", "=", "a", "c", "t", "i", "v", "e">>, <<"A", "c", "t", "i", "v", "e", "S", "t", "a", "t", "e", "=", "u", "p">>, <<"M", "a", "i", "n", "P", "I", "D", "=", "7">>, <<"M", "a", "i", "n", "P", "I", "D", "=", "4", "2">>,
      <<"M", "a", "i", "n", "P", "I", "D", "=", "0", "7">>, <<"M", "a", "i", "n", "P", "I", "D">> }

LineSeqs(pool, n) == UNION {[1..k -> pool] : k \in 0..n}

\* the lines, each but the last followed by "\n", the last too when terminated
TextOf(lines, terminated) ==
    Concat([i \in 1..Len(lines) |->
              IF i < Len(lines) \/ terminated THEN lines[i] \o <<"\n">> ELSE lines[i]])

\* an empty last line is a line only if a line break follows it
Terminations(lines) ==
    IF lines = <<>> THEN {FALSE}
    ELSE IF lines[Len(lines)] = <<>> THEN {TRUE}
    ELSE BOOLEAN

NotParsed == [called |-> FALSE, res |-> ParseFailure(NoParseError)]

\* a call of str::parse::<SystemDProperties>() on the text
Parse ==
    /\ parsed' = [called |-> TRUE, res |-> SystemDProperties_from_str(input_text)]
    /\ UNCHANGED <<input_lines, input_text, probe, is_systemd_result>>
    /\ UNCHANGED <<socket_env_vars, decode_vars, owner_vars, notify_vars>>

\* a call of is_systemd(unit): the command cannot be run, or it prints bytes
\* that are not UTF-8, or it prints the text
CallIsSystemd ==
    \E ran \in { [kind |-> "CommandError", stdout |-> <<>>],
                 [kind |-> "NotUtf8", stdout |-> <<>>],
                 [kind |-> "Output", stdout |-> input_text] } :
        /\ probe' = ran
        /\ is_systemd_result' = is_systemd(ran, process_id)
        /\ UNCHANGED <<input_lines, input_text, parsed>>
        /\ UNCHANGED <<socket_env_vars, decode_vars, owner_vars, notify_vars>>

----------------------------------------------------------------------------
(* Initial states *)

Pids == {7, 42}

PidTexts ==
    {NatToDecimal(p) : p \in Pids}
        \cup {<<"0", "7">>, <<"+", "4", "2">>, <<>>, <<"x">>, <<"-", "7">>, U32Max,
              <<"4", "2", "9", "4", "9", "6", "7", "2", "9", "6">>}

FdsTexts ==
    {NatToDecimal(n) : n \in 0..MaxFds}
        \cup {<<>>, <<"x">>, <<"+", "1">>, <<"0", "2">>, <<"-", "1">>,
              <<"1", "8", "4", "4", "6", "7", "4", "4", "0", "7",
                "3", "7", "0", "9", "5", "5", "1", "6", "1", "6">>}

NameTexts ==
    TextsUpTo({"a", "b", ":"}, MaxNameLen) \cup {<<"a", "b", ":", "b", ":", "a">>}

EnvValues(texts) == {NotPresent, NotUnicode} \cup {Present(t) : t \in texts}

IdleDecode ==
    /\ decoded = Err(NoError)
    /\ decode_warnings = 0
    /\ decodes = 0
    /\ held = <<>>
    /\ owners = [fd \in FdRange |-> 0]
    /\ wraps = [fd \in FdRange |-> 0]
    /\ listener_result = NoCall

IdleSocket ==
    /\ process_id = 7
    /\ env_listen_pid = NotPresent
    /\ env_listen_fds = NotPresent
    /\ env_listen_fdnames = NotPresent
    /\ fd_table = [fd \in FdRange |-> "closed"]
    /\ IdleDecode

IdleNotify ==
    /\ variables = <<>>
    /\ rendered = NotRendered
    /\ env_notify_socket = NotPresent
    /\ client = NoClient
    /\ ready_call = NotCalled
    /\ notify_warnings = 0
    /\ datagrams = <<>>
    /\ notify_calls = 0

IdleProps ==
    /\ input_lines = <<>>
    /\ input_text = <<>>
    /\ parsed = NotParsed
    /\ probe = [kind |-> "none", stdout |-> <<>>]
    /\ is_systemd_result = "none"

\* any environment; the manager handed over the descriptors it announced
InitDecode ==
    /\ process_id \in Pids
    /\ env_listen_pid \in EnvValues(PidTexts)
    /\ env_listen_fds \in EnvValues(FdsTexts)
    /\ env_listen_fdnames \in EnvValues(NameTexts)
    /\ fd_table = [fd \in FdRange |-> "socket"]
    /\ IdleDecode
    /\ IdleNotify
    /\ IdleProps

SpecDecode == InitDecode /\ [][CallSockets]_vars

\* an activation environment of this process, over descriptors of either kind
InitOwn ==
    /\ process_id \in Pids
    /\ env_listen_pid = Present(NatToDecimal(process_id))
    /\ \E n \in 0..MaxFds :
          /\ env_listen_fds = Present(NatToDecimal(n))
          /\ fd_table \in [FdRange -> {"socket", "file", "closed"}]
          /\ \A fd \in FdRange :
                fd_table[fd] = "closed" <=> fd >= SD_FD_OFFSET + n
    /\ env_listen_fdnames = NotPresent
    /\ IdleDecode
    /\ IdleNotify
    /\ IdleProps

NextOwn == CallSockets \/ CallListener \/ DropListener

SpecOwn == InitOwn /\ [][NextOwn]_vars

InitRender ==
    /\ IdleSocket
    /\ IdleNotify
    /\ IdleProps

NextRender == Push \/ Display

SpecRender == InitRender /\ [][NextRender]_vars

NotifyPaths == {<<"/", "r", "u", "n", "/", "n">>, <<"@", "n">>}

InitReady ==
    /\ IdleSocket
    /\ variables = <<>>
    /\ rendered = NotRendered
    /\ env_notify_socket \in EnvValues(NotifyPaths)
    /\ client = NoClient
    /\ ready_call = NotCalled
    /\ notify_warnings = 0
    /\ datagrams = <<>>
    /\ notify_calls = 0
    /\ IdleProps

NextReady == NewClient \/ ClientSend \/ CallReady

SpecReady == InitReady /\ [][NextReady]_vars

InitParse ==
    /\ IdleSocket
    /\ IdleNotify
    /\ input_lines \in LineSeqs(PropertyLines, MaxLines)
    /\ \E terminated \in Terminations(input_lines) :
          input_text = TextOf(input_lines, terminated)
    /\ parsed = NotParsed
    /\ probe = [kind |-> "none", stdout |-> <<>>]
    /\ is_systemd_result = "none"

SpecParse == InitParse /\ [][Parse]_vars

InitSystemd ==
    /\ process_id \in Pids
    /\ env_listen_pid = NotPresent
    /\ env_listen_fds = NotPresent
    /\ env_listen_fdnames = NotPresent
    /\ fd_table = [fd \in FdRange |-> "closed"]
    /\ IdleDecode
    /\ IdleNotify
    /\ input_lines \in LineSeqs(ProbeLines, MaxProbeLines)
    /\ \E terminated \in Terminations(input_lines) :
          input_text = TextOf(input_lines, terminated)
    /\ parsed = NotParsed
    /\ probe = [kind |-> "none", stdout |-> <<>>]
    /\ is_systemd_result = "none"

SpecSystemd == InitSystemd /\ [][CallIsSystemd]_vars

----------------------------------------------------------------------------
(* Claims about decoding, under SpecDecode *)

\* the text is an unsigned decimal numeral: digits, with an optional '+'
IsUnsignedNumeral(t) ==
    LET ds == IF t # <<>> /\ Head(t) = "+" THEN Tail(t) ELSE t
    IN  ds # <<>> /\ \A i \in 1..Len(ds) : IsDigit(ds[i])

\* the text is an unsigned decimal numeral of value v (v small)
Denotes(t, v) ==
    LET ds == IF t # <<>> /\ Head(t) = "+" THEN Tail(t) ELSE t
    IN  /\ IsUnsignedNumeral(t)
        /\ Len(StripZeros(ds)) <= 9
        /\ DigitsToNat(StripZeros(ds)) = v

FitsU32(t) ==
    LET ds == IF t # <<>> /\ Head(t) = "+" THEN Tail(t) ELSE t
    IN  IsUnsignedNumeral(t) /\ ~Overflows(StripZeros(ds), U32Max)

TokenCount(t) == 1 + Cardinality({i \in 1..Len(t) : t[i] = ":"})

RECURSIVE JoinWith(_, _)
JoinWith(pieces, c) ==
    IF pieces = <<>> THEN <<>>
    ELSE IF Len(pieces) = 1 THEN pieces[1]
    ELSE pieces[1] \o <<c>> \o JoinWith(Tail(pieces), c)

Decoded == decodes > 0

PidIsOwn == env_listen_pid.kind = "Present" /\ Denotes(env_listen_pid.text, process_id)

FdsIs(n) == env_listen_fds.kind = "Present" /\ Denotes(env_listen_fds.text, n)

Counts == 0..(MaxFds + 1)

\* n sockets on the descriptors 3, 4, ..., 3+n-1, in this order
NumberedFromThree(socks, n) ==
    /\ Len(socks) = n
    /\ \A i \in 1..n : socks[i].fd = 3 + (i - 1)

\* C1: with LISTEN_PID the own process id, LISTEN_FDS the decimal text of n and
\* LISTEN_FDNAMES a text of exactly n tokens between ':', decoding succeeds with
\* n sockets on descriptors 3..3+n-1 in ascending order, the i-th carrying the
\* i-th token as its name.
C1_NamedInOrder ==
    \A n \in Counts :
        ( /\ Decoded
          /\ PidIsOwn
          /\ env_listen_fds = Present(NatToDecimal(n))
          /\ env_listen_fdnames.kind = "Present"
          /\ TokenCount(env_listen_fdnames.text) = n )
        => /\ decoded.ok
           /\ NumberedFromThree(decoded.val, n)
           /\ \A i \in 1..n :
                /\ decoded.val[i].name.some
                /\ \A j \in 1..Len(decoded.val[i].name.val) :
                        decoded.val[i].name.val[j] # ":"
           /\ JoinWith([i \in 1..n |-> decoded.val[i].name.val], ":")
                = env_listen_fdnames.text

C1_Witness ==
    /\ Decoded
    /\ PidIsOwn
    /\ env_listen_fds = Present(<<"3">>)
    /\ env_listen_fdnames = Present(<<"a", "b", ":", "b", ":", "a">>)
    /\ decoded.ok
    /\ decoded.val = << [name |-> Some(<<"a", "b">>), fd |-> 3],
                        [name |-> Some(<<"b">>), fd |-> 4],
                        [name |-> Some(<<"a">>), fd |-> 5] >>

\* C2 as stated: with LISTEN_PID an unsigned integer other than the own process
\* id, decoding fails with WrongPID and returns no sockets, whatever LISTEN_FDS
\* (absent, unparseable or valid) and LISTEN_FDNAMES are.
C2_Original ==
    ( /\ Decoded
      /\ env_listen_pid.kind = "Present"
      /\ IsUnsignedNumeral(env_listen_pid.text)
      /\ ~Denotes(env_listen_pid.text, process_id) )
    => /\ ~decoded.ok
       /\ decoded.err.kind = "WrongPID"
       /\ held = <<>>

\* C2 amended: with LISTEN_PID a text that parses as a u32 other than the own
\* process id, decoding returns no sockets and fails with WrongPID(own id, the
\* LISTEN_PID text) when LISTEN_FDS is present as text, parseable or not, and
\* with MissingVar(LISTEN_FDS) when LISTEN_FDS is absent or not valid text;
\* LISTEN_FDNAMES does not matter.
C2_WrongPidUnlessFdsMissing ==
    ( /\ Decoded
      /\ env_listen_pid.kind = "Present"
      /\ FitsU32(env_listen_pid.text)
      /\ ~Denotes(env_listen_pid.text, process_id) )
    => /\ held = <<>>
       /\ decoded = IF env_listen_fds.kind = "Present"
                    THEN Err(WrongPID(process_id, env_listen_pid.text))
                    ELSE Err(MissingVar("LISTEN_FDS"))

C2_Witness ==
    /\ Decoded
    /\ process_id = 7
    /\ env_listen_pid = Present(<<"4", "2">>)
    /\ env_listen_fds = Present(<<"x">>)
    /\ env_listen_fdnames = Present(<<"a">>)
    /\ decoded = Err(WrongPID(7, <<"4", "2">>))

\* C5: with LISTEN_PID the own process id, LISTEN_FDS parsing to n and
\* LISTEN_FDNAMES a non-empty text whose number of tokens is not n, decoding
\* succeeds with n sockets on descriptors 3..3+n-1, none of which has a name.
C5_MismatchUnnamed ==
    \A n \in Counts :
        ( /\ Decoded
          /\ PidIsOwn
          /\ FdsIs(n)
          /\ env_listen_fdnames.kind = "Present"
          /\ env_listen_fdnames.text # <<>>
          /\ TokenCount(env_listen_fdnames.text) # n )
        => /\ decoded.ok
           /\ NumberedFromThree(decoded.val, n)
           /\ \A i \in 1..n : decoded.val[i].name = None

C5_Witness ==
    /\ Decoded
    /\ PidIsOwn
    /\ env_listen_fds = Present(<<"3">>)
    /\ env_listen_fdnames = Present(<<"a", ":", "b">>)
    /\ decoded.ok
    /\ Len(decoded.val) = 3
    /\ \A i \in 1..3 : decoded.val[i].name = None

\* C10 as stated: with LISTEN_PID the own process id, LISTEN_FDS parsing to n
\* (n = 1 included) and LISTEN_FDNAMES present but empty, decoding returns n
\* sockets and none has a name.
C10_Original ==
    \A n \in Counts :
        ( /\ Decoded
          /\ PidIsOwn
          /\ FdsIs(n)
          /\ env_listen_fdnames = Present(<<>>) )
        => /\ decoded.ok
           /\ NumberedFromThree(decoded.val, n)
           /\ \A i \in 1..n : decoded.val[i].name = None

\* C10 amended: with LISTEN_PID the own process id, LISTEN_FDS parsing to n and
\* LISTEN_FDNAMES present but empty, decoding returns n sockets on descriptors
\* 3..3+n-1; for every n other than 1 none has a name, and for n = 1 the one
\* socket carries the empty name (the empty text splits into one empty token).
C10_EmptyNames ==
    \A n \in Counts :
        ( /\ Decoded
          /\ PidIsOwn
          /\ FdsIs(n)
          /\ env_listen_fdnames = Present(<<>>) )
        => /\ decoded.ok
           /\ NumberedFromThree(decoded.val, n)
           /\ n # 1 => \A i \in 1..n : decoded.val[i].name = None
           /\ n = 1 => decoded.val[1].name = Some(<<>>)

C10_Witness ==
    /\ Decoded
    /\ PidIsOwn
    /\ FdsIs(2)
    /\ env_listen_fdnames = Present(<<>>)
    /\ decoded.ok
    /\ Len(decoded.val) = 2
    /\ decoded.val[1].name = None
    /\ decoded.val[2].name = None

----------------------------------------------------------------------------
(* Claims about ownership of the descriptors, under SpecOwn *)

\* C3: whatever calls of sockets() and listener() the process makes, every
\* descriptor is taken into ownership by at most one transfer, and never has
\* two owning objects alive at once.
C3_SingleTransfer ==
    \A fd \in FdRange : wraps[fd] <= 1 /\ owners[fd] <= 1

\* C4: when listener() has returned NotSocket for a descriptor, the value was
\* consumed and the descriptor is not left open with no owning object to
\* close it.
C4_NotSocketNoLeak ==
    (listener_result.called /\ listener_result.err.kind = "NotSocket")
    => /\ ~listener_result.ok
       /\ ~( /\ fd_table[listener_result.err.num] # "closed"
             /\ owners[listener_result.err.num] = 0 )

----------------------------------------------------------------------------
(* Claims about rendering, under SpecRender *)

\* the text is the decimal numeral of e: digits without leading zeros, after a
\* '-' exactly when e is negative
IsDecimalOf(d, e) ==
    LET ds == IF d # <<>> /\ Head(d) = "-" THEN Tail(d) ELSE d
    IN  /\ ds # <<>>
        /\ \A i \in 1..Len(ds) : IsDigit(ds[i])
        /\ Len(ds) > 1 => Head(ds) # "0"
        /\ Len(ds) <= 9
        /\ (d[1] = "-") <=> (e < 0)
        /\ DigitsToNat(ds) = (IF e < 0 THEN 0 - e ELSE e)

StartsWith(line, prefix) ==
    Len(line) >= Len(prefix) /\ SubSeq(line, 1, Len(prefix)) = prefix

After(line, prefix) == SubSeq(line, Len(prefix) + 1, Len(line))

\* the wire text of one notification, by the fixed mapping
IsWireTextOf(line, n) ==
    CASE n.kind = "Ready" -> line = <<"R", "E", "A", "D", "Y", "=", "1">>
      [] n.kind = "Reloading" -> line = <<"R", "E", "L", "O", "A", "D", "I", "N", "G", "=", "1">>
      [] n.kind = "Stopping" -> line = <<"S", "T", "O", "P", "P", "I", "N", "G", "=", "1">>
      [] n.kind = "Status" -> line = <<"S", "T", "A", "T", "U", "S", "=">> \o n.text
      [] n.kind = "Errno" ->
            StartsWith(line, <<"E", "R", "R", "N", "O", "=">>) /\ IsDecimalOf(After(line, <<"E", "R", "R", "N", "O", "=">>), n.num)
      [] n.kind = "WatchdogOk" -> line = <<"W", "A", "T", "C", "H", "D", "O", "G", "=", "1">>
      [] n.kind = "WatchdogTrigger" -> line = <<"W", "A", "T", "C", "H", "D", "O", "G", "=", "t", "r", "i", "g", "g", "e", "r">>
      [] n.kind = "Custom" -> line = <<"X", "-">> \o n.key \o <<"=">> \o n.text

\* the text is, for each notification in order, its wire text and a line break
RECURSIVE IsWireOf(_, _)
IsWireOf(text, message) ==
    IF message = <<>> THEN text = <<>>
    ELSE \E k \in 1..Len(text) :
            /\ text[k] = "\n"
            /\ IsWireTextOf(SubSeq(text, 1, k - 1), Head(message))
            /\ IsWireOf(SubSeq(text, k + 1, Len(text)), Tail(message))

HasLineBreak(t) == \E i \in 1..Len(t) : t[i] = "\n"

----------------------------------------------------------------------------
(* Claims about ready(), under SpecReady *)

ReadyCouldSend ==
    /\ env_notify_socket.kind = "Present"
    /\ ready_call.unbound_ok
    /\ ready_call.send_ok

----------------------------------------------------------------------------
(* Claims about unit properties, under SpecParse *)

LineCount == Len(input_lines)

\* the line as it is split: without its surrounding whitespace
Trimmed(i) == Trim(input_lines[i])

HasDelimiter(i) == \E j \in 1..Len(Trimmed(i)) : Trimmed(i)[j] = "="

FirstDelimiter(i) ==
    CHOOSE j \in 1..Len(Trimmed(i)) :
        /\ Trimmed(i)[j] = "="
        /\ \A k \in 1..(j - 1) : Trimmed(i)[k] # "="

KeyOf(i) == SubSeq(Trimmed(i), 1, FirstDelimiter(i) - 1)

ValueOf(i) == SubSeq(Trimmed(i), FirstDelimiter(i) + 1, Len(Trimmed(i)))

\* the last line with this key
LastLineOf(key) ==
    CHOOSE i \in 1..LineCount :
        /\ KeyOf(i) = key
        /\ \A j \in (i + 1)..LineCount : KeyOf(j) # key

StateWords ==
    { <<<<"a", "c", "t", "i", "v", "e">>, "Active">>, <<<<"r", "e", "l", "o", "a", "d", "i", "n", "g">>, "Reloading">>,
      <<<<"i", "n", "a", "c", "t", "i", "v", "e">>, "Inactive">>, <<<<"f", "a", "i", "l", "e", "d">>, "Failed">>,
      <<<<"a", "c", "t", "i", "v", "a", "t", "i", "n", "g">>, "Activating">>, <<<<"d", "e", "a", "c", "t", "i", "v", "a", "t", "i", "n", "g">>, "Deactivating">> }

IsStateWord(w) == \E p \in StateWords : p[1] = w

AllDelimited == \A i \in 1..LineCount : HasDelimiter(i)

HasActiveState == \E i \in 1..LineCount : KeyOf(i) = <<"A", "c", "t", "i", "v", "e", "S", "t", "a", "t", "e">>

\* C8: parsing succeeds only when every line holds '=' and the key ActiveState
\* is there with one of the six state words, matched exactly, as the value of
\* its last line; a line without '=' fails with MissingDelimeter, no
\* ActiveState with MissingProperty, another state word with the state parse
\* error; on success property(k) is the value of the last line with key k and
\* state() the state of the last ActiveState line. Keys and values are those of
\* the line without its surrounding whitespace.
C8_ParseProperties ==
    parsed.called
    => /\ parsed.res.ok <=>
            ( /\ AllDelimited
              /\ HasActiveState
              /\ IsStateWord(ValueOf(LastLineOf(<<"A", "c", "t", "i", "v", "e", "S", "t", "a", "t", "e">>))) )
       /\ ~AllDelimited =>
            \E i \in 1..LineCount :
                /\ ~HasDelimiter(i)
                /\ \A j \in 1..(i - 1) : HasDelimiter(j)
                /\ parsed.res.err = MissingDelimeter(input_lines[i])
       /\ (AllDelimited /\ ~HasActiveState) =>
            parsed.res.err = MissingProperty(<<"A", "c", "t", "i", "v", "e", "S", "t", "a", "t", "e">>)
       /\ ( /\ AllDelimited
            /\ HasActiveState
            /\ ~IsStateWord(ValueOf(LastLineOf(<<"A", "c", "t", "i", "v", "e", "S", "t", "a", "t", "e">>))) ) =>
            parsed.res.err = StateParseError(ValueOf(LastLineOf(<<"A", "c", "t", "i", "v", "e", "S", "t", "a", "t", "e">>)))
       /\ parsed.res.ok =>
            /\ \A i \in 1..LineCount :
                    property(parsed.res, KeyOf(i)) = Some(ValueOf(LastLineOf(KeyOf(i))))
            /\ DOMAIN parsed.res.properties = {KeyOf(i) : i \in 1..LineCount}
            /\ <<ValueOf(LastLineOf(<<"A", "c", "t", "i", "v", "e", "S", "t", "a", "t", "e">>)), state(parsed.res)>> \in StateWords

C8_Witness ==
    /\ parsed.called
    /\ input_lines = <<<<"A", "c", "t", "i", "v", "e", "S", "t", "a", "t", "e", "=", "A", "c", "t", "i", "v", "e">>, <<"M", "a", "i", "n", "P", "I", "D", "=", "7">>, <<"A", "c", "t", "i", "v", "e", "S", "t", "a", "t", "e", "=", "f", "a", "i", "l", "e", "d">>>>
    /\ parsed.res.ok
    /\ state(parsed.res) = "Failed"
    /\ property(parsed.res, <<"M", "a", "i", "n", "P", "I", "D">>) = Some(<<"7">>)

----------------------------------------------------------------------------
(* Claims about is_systemd, under SpecSystemd *)

ProbeSucceeds == probe.kind = "Output" /\ SystemDProperties_from_str(probe.stdout).ok

\* C9: is_systemd returns true exactly when the probe succeeds and its MainPID
\* is the decimal text of the own process id, and false in every other case,
\* a probe that cannot be run, parsed or decoded included; it never fails.
C9_IsSystemd ==
    is_systemd_result # "none"
    => /\ is_systemd_result \in {"true", "false"}
       /\ is_systemd_result = "true" <=>
            ( /\ ProbeSucceeds
              /\ property(SystemDProperties_from_str(probe.stdout), <<"M", "a", "i", "n", "P", "I", "D">>)
                    = Some(NatToDecimal(process_id)) )

====
